---- MODULE Spec2Model ----
(***************************************************************************)
(* Notion-Visualizer: the two batch scripts generate_heatmap.py and        *)
(* generate_wordcloud.py as state machines.                                *)
(*                                                                         *)
(*   Spec      one run of either script: the pagination loop, record       *)
(*             ingestion, timezone normalisation, aggregation, rendering   *)
(*             and the artifacts written, over the window the script       *)
(*             computes from today's date.                                 *)
(*   SpecGrid  the aggregation, grid layout and month labels (heatmap      *)
(*             lines 172-299) applied to windows [start_date, end_date]    *)
(*             drawn from bounded sets, walked one day at a time.          *)
(*   SpecColor the colour classifier get_color applied to bounded values.  *)
(*                                                                         *)
(* Conventions.  A calendar day is its proleptic Gregorian ordinal         *)
(* (date.toordinal()).  Python's None, a missing dictionary key and an     *)
(* empty string are all "falsy" where the code tests them; they are        *)
(* modelled by the values NoDate / NoNumber / NoCursor.  Durations are     *)
(* whole numbers (float() of a JSON integer is exact).                     *)
(***************************************************************************)
EXTENDS Integers, Sequences, FiniteSets, TLC

(***************************************************************************)
(* Bounds of the model.                                                    *)
(***************************************************************************)
\* the first value of datetime.now().date() considered: 2025-11-30 (a Sunday)
FirstToday == 739585
\* how many consecutive values of today are considered
NumTodays == 1
\* the most pages the data source returns in one run
MaxPages == 3
\* the most page records the data source returns in one run, over all pages
MaxFetched == 2

(***************************************************************************)
(* Program constants.                                                      *)
(***************************************************************************)
\* timedelta(weeks=52)
WindowWeeks == 52
\* ZoneInfo("Asia/Taipei"): UTC+8, no daylight saving time
TaipeiOffset == 8

(***************************************************************************)
(* datetime.date: weekday(), month                                         *)
(***************************************************************************)
\* date.weekday(): Monday = 0 ... Sunday = 6; ordinal 1 (0001-01-01) is a Monday
weekday(d) == (d + 6) % 7

\* date.month of the day with ordinal d (civil-from-days on the Gregorian calendar)
month(d) ==
    LET z   == d + 305
        era == z \div 146097
        doe == z - era * 146097
        yoe == (doe - doe \div 1460 + doe \div 36524 - doe \div 146096) \div 365
        doy == doe - (365 * yoe + yoe \div 4 - yoe \div 100)
        mp  == (5 * doy + 2) \div 153
    IN  IF mp < 10 THEN mp + 3 ELSE mp - 9

\* the window of a run: 52 weeks back from today, aligned to that week's Monday
WindowStart(t) ==
    LET one_year_ago == t - 7 * WindowWeeks
    IN  one_year_ago - weekday(one_year_ago)

(***************************************************************************)
(* Values exchanged with the Notion API                                    *)
(***************************************************************************)
\* an ISO 8601 timestamp string.  kind "date": a date only ("2025-01-02");
\* kind "datetime": date, time and UTC offset ("2025-01-01T20:00:00.000Z",
\* "...+08:00"): day and hour are the wall-clock fields as written, off the
\* offset in hours.  NoDate: None or a missing key.
NoDate == [kind |-> "none", day |-> 0, hour |-> 0, off |-> 0]
DateOnly(d) == [kind |-> "date", day |-> d, hour |-> 0, off |-> 0]
DateTime(d, h, o) == [kind |-> "datetime", day |-> d, hour |-> h, off |-> o]

\* a rollup number that is null or missing
NoNumber == -1
\* start_cursor=None
NoCursor == "None"
Cursors == {"c1", "c2"}

\* one element of a title / rich_text content list: "mention" is "none" for plain
\* text, else the mention's type; start is a date mention's date.start
TextItem == [mention |-> "none", start |-> NoDate]
UserMention == [mention |-> "user", start |-> NoDate]
DateMention(s) == [mention |-> "date", start |-> s]

\* the property named DATE_PROP of one page.  type "absent": the page has no such
\* property (props.get(DATE_PROP, {}) is {}).
DateProp(t, d, c, ti, rt) ==
    [type |-> t, date |-> d, created_time |-> c, title |-> ti, rich_text |-> rt]
AbsentProp == DateProp("absent", NoDate, NoDate, <<>>, <<>>)

\* the property named DURATION_PROP of one page: rollup "absent" (no such property,
\* or a property of another type, without a "rollup" key), else the rollup's
\* "number" (NoNumber when null or when the rollup is not a number)
DurationProp(r, n) == [rollup |-> r, number |-> n]

(***************************************************************************)
(* State                                                                   *)
(***************************************************************************)
VARIABLES
    prog,            \* which script runs: "heatmap" or "wordcloud"
    pc,              \* the script's position
    exit_code,       \* <<>> while running, <<status>> once the process has exited
    today,           \* TODAY = datetime.now().date()
    start_date,      \* first day of the window
    end_date,        \* last day of the window
    schema,          \* the type of the DATE_PROP property in the data source
    has_more,        \* loop variable has_more
    start_cursor,    \* loop variable start_cursor
    queries,         \* the start_cursor argument of every query call made, in order
    pages,           \* every response received, in order (the last is `response`)
    records,         \* heatmap: list of {"date", "value"}
    tag_list,        \* word cloud: flat list of tag names
    df,              \* heatmap: the normalised frame, rows of [date, value]
    daily_data,      \* heatmap: the daily series, rows of [date, value]
    boxes,           \* heatmap: the boxes drawn, one [x, y, color] per day walked
    week_label_map,  \* heatmap: week index -> month label
    current_month,   \* heatmap: month tracked by the label loop
    text_freq,       \* word cloud: tag -> count
    files,           \* public/, the image and the HTML wrapper: "absent", "old", "new"
    i,               \* SpecGrid: position of the box loop / label loop in daily_data
    value,           \* SpecColor: the value classified last
    color            \* SpecColor: its colour

vars == <<prog, pc, exit_code, today, start_date, end_date, schema, has_more,
          start_cursor, queries, pages, records, tag_list, df, daily_data, boxes,
          week_label_map, current_month, text_freq, files, i, value, color>>

(***************************************************************************)
(* Record ingestion (generate_heatmap.py, lines 89-128)                    *)
(***************************************************************************)
\* lines 93-113: the date string of a DATE_PROP property, NoDate when none
ExtractDate(date_prop) ==
    LET caseA == IF date_prop.type = "date" THEN date_prop.date ELSE NoDate
        caseB == IF caseA = NoDate /\ date_prop.type = "created_time"
                 THEN date_prop.created_time ELSE caseA
        content_list == IF date_prop.title # <<>> THEN date_prop.title
                        ELSE date_prop.rich_text
        caseC == IF caseB # NoDate THEN caseB
                 ELSE IF content_list = <<>> THEN NoDate
                 ELSE IF content_list[1].mention = "none" THEN NoDate
                 ELSE content_list[1].start
    IN  caseC

\* line 122: props.get(DURATION_PROP, {}).get("rollup", {}).get("number")
ExtractDuration(duration_prop) ==
    IF duration_prop.rollup = "absent" THEN NoNumber ELSE duration_prop.number

\* Accepted with the number tested for truth, not for None: a value of 0 is dropped
AcceptedTruthy(date_str, duration_num) ==
    date_str # NoDate /\ duration_num # NoNumber /\ duration_num # 0

\* lines 115-116, 124: whether one page record is appended to records
Accepted(date_str, duration_num) ==
    date_str # NoDate /\ duration_num # NoNumber

\* lines 90-128: the body of the for loop, for one page record
IngestRecord(recs, page) ==
    LET date_str == ExtractDate(page.date_prop)
        duration_num == ExtractDuration(page.duration_prop)
    IN  IF Accepted(date_str, duration_num)
        THEN Append(recs, [date |-> date_str, value |-> duration_num])
        ELSE recs

\* lines 89-128: the for loop over one response's results
RECURSIVE IngestPage(_, _)
IngestPage(recs, results) ==
    IF results = <<>> THEN recs
    ELSE IngestPage(IngestRecord(recs, Head(results)), Tail(results))

(***************************************************************************)
(* Timezone normalisation (generate_heatmap.py, lines 143-170)             *)
(*                                                                         *)
(* pd.to_datetime(column, errors='coerce'), pandas 2 and later: the format *)
(* is inferred from the first element and every element is parsed with     *)
(* it; an element that does not match it is invalid and becomes NaT.  A    *)
(* column whose parsed elements carry different UTC offsets is not a       *)
(* datetime column, and the .dt accessor of line 152 raises.               *)
(***************************************************************************)
\* NaT, the missing timestamp (no day has ordinal 0)
NaT == 0

\* line 148: whether the element at row k parses with the inferred format
Parses(column, k) == column[k].kind = column[1].kind

\* line 148: the parsed elements carry more than one UTC offset
MixedOffsets(column) ==
    \E j, k \in DOMAIN column :
        /\ Parses(column, j) /\ Parses(column, k)
        /\ column[j].off # column[k].off

\* lines 152, 162, 169: df['date'].dt.tz is not None
IsAware(column) == column[1].kind = "datetime"

\* line 163: the calendar day of a zone-aware timestamp in Asia/Taipei
TaipeiDay(ts) == (ts.day * 24 + ts.hour - ts.off + TaipeiOffset) \div 24

\* lines 148-170 for one row: the normalised day, or NaT
NormalizeRow(column, k) ==
    IF ~Parses(column, k) THEN NaT
    ELSE IF IsAware(column) THEN TaipeiDay(column[k])
    ELSE column[k].day

\* lines 143-170: the frame after normalisation
Normalize(recs) ==
    LET column == [k \in DOMAIN recs |-> recs[k].date]
    IN  [k \in DOMAIN recs |->
            [date |-> NormalizeRow(column, k), value |-> recs[k].value]]

(***************************************************************************)
(* Daily aggregation (generate_heatmap.py, lines 172-192)                  *)
(***************************************************************************)
\* the sum of the values of the rows of frame whose date is d
RECURSIVE SumOn(_, _)
SumOn(frame, d) ==
    IF frame = <<>> THEN 0
    ELSE (IF Head(frame).date = d THEN Head(frame).value ELSE 0)
         + SumOn(Tail(frame), d)

\* the elements of a finite set of integers in ascending order
RECURSIVE Ascending(_)
Ascending(S) ==
    IF S = {} THEN <<>>
    ELSE LET m == CHOOSE x \in S : \A y \in S : x <= y
         IN  <<m>> \o Ascending(S \ {m})

\* GroupBySum as groupby().first(): the first value of a day, not the sum
GroupByFirst(frame) ==
    LET keys == {frame[k].date : k \in DOMAIN frame} \ {NaT}
        index == Ascending(keys)
    IN  [k \in DOMAIN index |->
            [date |-> index[k],
             value |-> frame[CHOOSE j \in DOMAIN frame :
                                /\ frame[j].date = index[k]
                                /\ \A h \in 1..(j - 1) : frame[h].date # index[k]].value]]

\* line 175: df['value'].groupby(df.index).sum(): one row per distinct key, keys
\* sorted, rows whose key is NaT dropped
GroupBySum(frame) ==
    LET keys == {frame[k].date : k \in DOMAIN frame} \ {NaT}
        index == Ascending(keys)
    IN  [k \in DOMAIN index |-> [date |-> index[k], value |-> SumOn(frame, index[k])]]

\* line 187: pd.date_range(start_date, end_date)
DateRange(start, end) == [k \in 1..(end - start + 1) |-> start + k - 1]

\* Reindex as a reindex over the days that have data and the window together:
\* days outside the window are kept
ReindexUnion(series, idx) ==
    LET days == Ascending({series[j].date : j \in DOMAIN series}
                          \cup {idx[k] : k \in DOMAIN idx})
    IN  [k \in DOMAIN days |->
            [date |-> days[k],
             value |-> IF \E j \in DOMAIN series : series[j].date = days[k]
                       THEN (LET j == CHOOSE j \in DOMAIN series : series[j].date = days[k]
                             IN  series[j].value)
                       ELSE 0]]

\* line 192: daily_data.reindex(idx, fill_value=0)
Reindex(series, idx) ==
    [k \in DOMAIN idx |->
        [date |-> idx[k],
         value |-> IF \E j \in DOMAIN series : series[j].date = idx[k]
                   THEN (LET j == CHOOSE j \in DOMAIN series : series[j].date = idx[k]
                         IN  series[j].value)
                   ELSE 0]]

\* lines 172-192: the daily series of a frame over the window
Aggregate(frame, start, end) == Reindex(GroupBySum(frame), DateRange(start, end))

(***************************************************************************)
(* Colour tiers and grid layout (generate_heatmap.py, lines 212-257)       *)
(***************************************************************************)
COLORS == <<"#ebedf0", "#D9BAAB", "#C69781", "#B37557", "#A0522D">>

\* get_color with <= for <: a value equal to a threshold stays in the lower tier
get_color_inclusive(v) ==
    IF v = 0 THEN COLORS[1]
    ELSE IF v <= 120 THEN COLORS[2]
    ELSE IF v <= 240 THEN COLORS[3]
    ELSE IF v <= 480 THEN COLORS[4]
    ELSE COLORS[5]

\* lines 213-218 (COLORS[0] is the first element)
get_color(v) ==
    IF v = 0 THEN COLORS[1]
    ELSE IF v < 120 THEN COLORS[2]
    ELSE IF v < 240 THEN COLORS[3]
    ELSE IF v < 480 THEN COLORS[4]
    ELSE COLORS[5]

\* get_week_num without the weekday of start_date: plain delta // 7
get_week_num_plain(date_obj, start) == (date_obj - start) \div 7

\* lines 224-230
get_week_num(date_obj, start) ==
    LET delta == date_obj - start
        start_weekday == weekday(start)
    IN  (delta + start_weekday) \div 7

\* line 232
total_weeks(start, end) == get_week_num(end, start) + 1

\* lines 247-274: the box drawn for one item of daily_data
PlotBox(item, start) ==
    LET week_idx == get_week_num(item.date, start)
        day_idx == weekday(item.date)
    IN  [date |-> item.date, week_idx |-> week_idx, day_idx |-> day_idx,
         x |-> week_idx, y |-> 6 - day_idx, color |-> get_color(item.value)]

(***************************************************************************)
(* Month labels (generate_heatmap.py, lines 284-299)                       *)
(***************************************************************************)
\* str(current_month)
MonthStr == <<"1", "2", "3", "4", "5", "6", "7", "8", "9", "10", "11", "12">>

\* SetLabel that keeps a label already set for the week: first write wins
SetLabelOnce(map, week_idx, label) ==
    [w \in DOMAIN map \cup {week_idx} |-> IF w \in DOMAIN map THEN map[w] ELSE label]

\* week_label_map[week_idx] = label
SetLabel(map, week_idx, label) ==
    [w \in DOMAIN map \cup {week_idx} |-> IF w = week_idx THEN label ELSE map[w]]

\* lines 291-299: the body of the label loop for one day; st = [map, month]
PlaceLabel(st, date_obj, start) ==
    IF month(date_obj) # st.month
    THEN [map |-> SetLabel(st.map, get_week_num(date_obj, start),
                           MonthStr[month(date_obj)]),
          month |-> month(date_obj)]
    ELSE st

(***************************************************************************)
(* Tag extraction and counting (generate_wordcloud.py, lines 82-125)       *)
(*                                                                         *)
(* A text is a sequence of characters; a tag name is a text.               *)
(***************************************************************************)
\* the full-width comma U+FF0C, one character
FullWidthComma == "U+FF0C"

\* text_content.replace(U+FF0C, ",")
ReplaceFullWidth(text) ==
    [k \in DOMAIN text |-> IF text[k] = FullWidthComma THEN "," ELSE text[k]]

\* str.split(","): the pieces between the commas, empty pieces included
RECURSIVE SplitComma(_, _, _)
SplitComma(text, piece, done) ==
    IF text = <<>> THEN Append(done, piece)
    ELSE IF Head(text) = "," THEN SplitComma(Tail(text), <<>>, Append(done, piece))
    ELSE SplitComma(Tail(text), Append(piece, Head(text)), done)

\* str.strip()
RECURSIVE LStrip(_)
LStrip(text) ==
    IF text # <<>> /\ Head(text) = " " THEN LStrip(Tail(text)) ELSE text
RECURSIVE RStrip(_)
RStrip(text) ==
    IF text # <<>> /\ text[Len(text)] = " "
    THEN RStrip(SubSeq(text, 1, Len(text) - 1)) ELSE text
Strip(text) == RStrip(LStrip(text))

\* lines 104, 111: [x.strip() for x in text.replace(U+FF0C, ",").split(",") if x.strip()]
SplitTags(text) ==
    LET pieces == SplitComma(ReplaceFullWidth(text), <<>>, <<>>)
        stripped == [k \in DOMAIN pieces |-> Strip(pieces[k])]
    IN  SelectSeq(stripped, LAMBDA x : x # <<>>)

\* "".join(...) of the plain_text of a rich_text list
RECURSIVE Join(_)
Join(texts) == IF texts = <<>> THEN <<>> ELSE Head(texts) \o Join(Tail(texts))

\* the property named TAGS_PROP of one page.  type "absent": props.get(TAGS_PROP) is
\* None.  multi_select: the option names; select: <<>> for a null select, else the
\* one name; rich_text: the plain_text of each element; formula: formula_type and,
\* for a string formula, the string (<<>> when null).
TagProp(t, ms, sel, rt, ft, fs) ==
    [type |-> t, multi_select |-> ms, select |-> sel, rich_text |-> rt,
     formula_type |-> ft, string |-> fs]

\* lines 84-111: the names one page contributes
ExtractTags(tag_prop) ==
    IF tag_prop.type = "absent" THEN <<>>
    ELSE IF tag_prop.type = "multi_select" THEN tag_prop.multi_select
    ELSE IF tag_prop.type = "select" THEN tag_prop.select
    ELSE IF tag_prop.type = "rich_text"
         THEN (IF tag_prop.rich_text = <<>> THEN <<>>
               ELSE SplitTags(Join(tag_prop.rich_text)))
    ELSE IF tag_prop.type = "formula"
         THEN (IF tag_prop.formula_type = "string" THEN SplitTags(tag_prop.string)
               ELSE <<>>)
    ELSE <<>>

\* lines 82-113: the for loop over one response's results
RECURSIVE ExtendTags(_, _)
ExtendTags(tags, results) ==
    IF results = <<>> THEN tags
    ELSE ExtendTags(tags \o ExtractTags(Head(results).tag_prop), Tail(results))

\* a table of the distinct tags, each counted once however often it occurs
CounterDistinct(tags) == [t \in {tags[k] : k \in DOMAIN tags} |-> 1]

\* line 124: collections.Counter(tag_list)
Counter(tags) ==
    [t \in {tags[k] : k \in DOMAIN tags} |->
        Cardinality({k \in DOMAIN tags : tags[k] = t})]

(***************************************************************************)
(* The data source: what one run can be answered                           *)
(***************************************************************************)
\* the timestamps the pages of this run carry: all on the day before end_date
RecDay == end_date - 1
ZTimes == {DateTime(RecDay, 3, 0), DateTime(RecDay, 20, 0)}
OffsetTimes == {DateTime(RecDay, 3, TaipeiOffset)}
Dates == {DateOnly(RecDay)}

\* the types the DATE_PROP property can have in the data source
Schemas == {"date", "created_time", "title", "rich_text", "absent"}

\* the DATE_PROP property of a page, for each type of the property
DateProps(type) ==
    CASE type = "date" ->
            {DateProp("date", s, NoDate, <<>>, <<>>) :
                s \in Dates \cup ZTimes \cup OffsetTimes \cup {NoDate}}
      [] type = "created_time" ->
            {DateProp("created_time", NoDate, s, <<>>, <<>>) : s \in ZTimes}
      [] type = "title" ->
            {DateProp("title", NoDate, NoDate, c, <<>>) :
                c \in {<<>>, <<TextItem>>, <<UserMention>>}
                      \cup {<<DateMention(s)>> : s \in Dates \cup ZTimes}}
      [] type = "rich_text" ->
            {DateProp("rich_text", NoDate, NoDate, <<>>, c) :
                c \in {<<>>, <<TextItem, DateMention(DateOnly(RecDay))>>,
                       <<DateMention(DateOnly(RecDay)), TextItem>>}}
      [] OTHER -> {AbsentProp}

\* the DURATION_PROP property of a page
DurationProps ==
    {DurationProp("absent", NoNumber), DurationProp("present", NoNumber),
     DurationProp("present", 0), DurationProp("present", 90)}

\* the pages of the heatmap's data source
HeatmapPages ==
    {[date_prop |-> d, duration_prop |-> n] :
        d \in DateProps(schema), n \in DurationProps}

TagA == <<"A">>
TagB == <<"B">>
\* the pages of the word cloud's data source
WordcloudPages ==
    {[tag_prop |-> t] : t \in
        {TagProp("absent", <<>>, <<>>, <<>>, "none", <<>>),
         TagProp("multi_select", <<>>, <<>>, <<>>, "none", <<>>),
         TagProp("multi_select", <<TagA, TagB>>, <<>>, <<>>, "none", <<>>),
         TagProp("select", <<>>, <<>>, <<>>, "none", <<>>),
         TagProp("select", <<>>, <<TagA>>, <<>>, "none", <<>>),
         TagProp("rich_text", <<>>, <<>>, <<>>, "none", <<>>),
         TagProp("rich_text", <<>>, <<>>, <<<<"A", ",">>, <<" ", "B">>>>, "none", <<>>),
         TagProp("formula", <<>>, <<>>, <<>>, "string", <<"B", FullWidthComma, " ">>),
         TagProp("formula", <<>>, <<>>, <<>>, "number", <<>>),
         TagProp("number", <<>>, <<>>, <<>>, "none", <<>>)}}

\* the sequences over S of length at most n
SeqsUpTo(S, n) == UNION {[1..k -> S] : k \in 0..n}

\* the page records received so far
RECURSIVE Fetched(_)
Fetched(ps) == IF ps = <<>> THEN <<>> ELSE Head(ps).results \o Fetched(Tail(ps))

\* the responses the data source can give to the next query: more pages only
\* below MaxPages, next_cursor set exactly when has_more is
Responses(source) ==
    LET more == {b \in BOOLEAN : b => Len(pages) + 1 < MaxPages}
        ends == {[has_more |-> h, next_cursor |-> c] :
                    h \in more, c \in Cursors \cup {NoCursor}}
    IN  {[results |-> r, has_more |-> e.has_more, next_cursor |-> e.next_cursor] :
            r \in SeqsUpTo(source, MaxFetched - Len(Fetched(pages))),
            e \in {x \in ends : x.has_more = (x.next_cursor # NoCursor)}}

(***************************************************************************)
(* Spec: one run of either script                                          *)
(***************************************************************************)
NoFiles == [dir |-> "absent", png |-> "absent", html |-> "absent"]
OldFiles == [dir |-> "old", png |-> "old", html |-> "old"]

\* output_dir.mkdir(exist_ok=True)
Mkdir(fs) == [fs EXCEPT !.dir = IF @ = "absent" THEN "new" ELSE @]

\* the state when the first query is about to be made: the configuration is
\* valid, the window is computed (heatmap lines 39-42), the loop variables are set
\* (heatmap lines 48-53, word cloud lines 63-67)
Init ==
    /\ prog \in {"heatmap", "wordcloud"}
    /\ pc = "loop"
    /\ exit_code = <<>>
    /\ today \in FirstToday .. (FirstToday + NumTodays - 1)
    /\ start_date = WindowStart(today)
    /\ end_date = today
    /\ schema \in IF prog = "heatmap" THEN Schemas ELSE {"absent"}
    /\ has_more = TRUE
    /\ start_cursor = NoCursor
    /\ queries = <<>>
    /\ pages = <<>>
    /\ records = <<>>
    /\ tag_list = <<>>
    /\ df = <<>>
    /\ daily_data = <<>>
    /\ boxes = <<>>
    /\ week_label_map = <<>>
    /\ current_month = -1
    /\ text_freq = <<>>
    /\ files \in {NoFiles, OldFiles}
    /\ i = 0
    /\ value = 0
    /\ color = get_color(0)

\* start_cursor left as it was: the cursor of the response is not read
StaleCursor(response) == NoCursor

\* lines 131 (heatmap), 116 (word cloud): start_cursor = response.get("next_cursor")
NextCursor(response) == response.next_cursor

\* lines 130 (heatmap), 115 (word cloud): has_more = response.get("has_more", False)
HasMore(response) == response.has_more

\* the process exits with this status at this position
Exit(at, status) ==
    /\ pc' = at
    /\ exit_code' = <<status>>

\* heatmap lines 55-132, one iteration of the while loop whose query succeeds
HQuery ==
    /\ prog = "heatmap" /\ pc = "loop" /\ has_more
    /\ \E response \in Responses(HeatmapPages) :
        /\ queries' = Append(queries, start_cursor)
        /\ pages' = Append(pages, response)
        /\ records' = IngestPage(records, response.results)
        /\ has_more' = HasMore(response)
        /\ start_cursor' = NextCursor(response)
    /\ UNCHANGED <<prog, pc, exit_code, today, start_date, end_date, schema, tag_list,
                   df, daily_data, boxes, week_label_map, current_month, text_freq,
                   files, i, value, color>>

\* HQueryError with the exception swallowed: the loop is left and the run goes on
\* with the records of the earlier pages
HQueryErrorIgnored ==
    /\ prog = "heatmap" /\ pc = "loop" /\ has_more
    /\ queries' = Append(queries, start_cursor)
    /\ has_more' = FALSE
    /\ UNCHANGED <<prog, pc, exit_code, today, start_date, end_date, schema,
                   start_cursor, pages, records, tag_list, df, daily_data, boxes,
                   week_label_map, current_month, text_freq, files, i, value, color>>

\* heatmap lines 65-73: the query raises; print and sys.exit(1)
HQueryError ==
    /\ prog = "heatmap" /\ pc = "loop" /\ has_more
    /\ queries' = Append(queries, start_cursor)
    /\ Exit("query_failed", 1)
    /\ UNCHANGED <<prog, today, start_date, end_date, schema, has_more, start_cursor,
                   pages, records, tag_list, df, daily_data, boxes, week_label_map,
                   current_month, text_freq, files, i, value, color>>

\* HLoopExit without the test of line 134: an empty result is rendered too
HLoopExitRenderEmpty ==
    /\ prog = "heatmap" /\ pc = "loop" /\ ~has_more
    /\ pc' = "normalize" /\ queries' = <<>> /\ pages' = <<>>
    /\ UNCHANGED <<prog, exit_code, today, start_date, end_date, schema, has_more,
                   start_cursor, records, tag_list, df, daily_data, boxes,
                   week_label_map, current_month, text_freq, files, i, value, color>>

\* heatmap lines 134-140: the loop has ended; sys.exit(0) when there are no records.
\* Nothing after the loop reads a response: the log of the loop ends here.
HLoopExit ==
    /\ prog = "heatmap" /\ pc = "loop" /\ ~has_more
    /\ IF records = <<>>
       THEN Exit("no_records", 0) /\ UNCHANGED <<queries, pages>>
       ELSE pc' = "normalize" /\ queries' = <<>> /\ pages' = <<>> /\ UNCHANGED exit_code
    /\ UNCHANGED <<prog, today, start_date, end_date, schema, has_more, start_cursor,
                   records, tag_list, df, daily_data, boxes,
                   week_label_map, current_month, text_freq, files, i, value, color>>

\* heatmap lines 143-170: parse and normalise the dates; the .dt accessor raises on
\* a column that is not a datetime column
HNormalize ==
    /\ prog = "heatmap" /\ pc = "normalize"
    /\ IF MixedOffsets([k \in DOMAIN records |-> records[k].date])
       THEN Exit("crashed", 1) /\ UNCHANGED df
       ELSE pc' = "aggregate" /\ df' = Normalize(records) /\ UNCHANGED exit_code
    /\ UNCHANGED <<prog, today, start_date, end_date, schema, has_more, start_cursor,
                   queries, pages, records, tag_list, daily_data, boxes,
                   week_label_map, current_month, text_freq, files, i, value, color>>

\* heatmap lines 172-192: group by day, create public/, reindex over the window
HAggregate ==
    /\ prog = "heatmap" /\ pc = "aggregate"
    /\ daily_data' = Aggregate(df, start_date, end_date)
    /\ files' = Mkdir(files)
    /\ pc' = "render"
    /\ UNCHANGED <<prog, exit_code, today, start_date, end_date, schema, has_more,
                   start_cursor, queries, pages, records, tag_list, df, boxes,
                   week_label_map, current_month, text_freq, i, value, color>>

\* the label loop over the items lo..hi of series, in order.  The range is halved
\* and the state after the left half is bound as a value before the right half is
\* walked, which only keeps the evaluation shallow: the items are visited left to
\* right, each by PlaceLabel.
RECURSIVE PlaceLabels(_, _, _, _, _)
PlaceLabels(st, series, lo, hi, start) ==
    IF lo > hi THEN st
    ELSE IF lo = hi THEN PlaceLabel(st, series[lo].date, start)
    ELSE LET mid == (lo + hi) \div 2
         IN  CHOOSE right \in
                 {PlaceLabels(left, series, mid + 1, hi, start) :
                     left \in {PlaceLabels(st, series, lo, mid, start)}} : TRUE

\* heatmap lines 247-299: draw one box per day, then place the month labels
HRender ==
    /\ prog = "heatmap" /\ pc = "render"
    /\ boxes' = [k \in DOMAIN daily_data |-> PlotBox(daily_data[k], start_date)]
    /\ LET st == PlaceLabels([map |-> <<>>, month |-> -1], daily_data, 1,
                                Len(daily_data), start_date)
       IN  /\ week_label_map' = st.map
           /\ current_month' = st.month
    /\ pc' = "save"
    /\ UNCHANGED <<prog, exit_code, today, start_date, end_date, schema, has_more,
                   start_cursor, queries, pages, records, tag_list, df, daily_data,
                   text_freq, files, i, value, color>>

\* heatmap lines 310-313: plt.savefig(public/heatmap.png)
HSave ==
    /\ prog = "heatmap" /\ pc = "save"
    /\ files' = [files EXCEPT !.png = "new"]
    /\ pc' = "html"
    /\ UNCHANGED <<prog, exit_code, today, start_date, end_date, schema, has_more,
                   start_cursor, queries, pages, records, tag_list, df, daily_data,
                   boxes, week_label_map, current_month, text_freq, i, value, color>>

\* heatmap lines 316-383: write public/heatmap.html; main returns
HWriteHtml ==
    /\ prog = "heatmap" /\ pc = "html"
    /\ files' = [files EXCEPT !.html = "new"]
    /\ Exit("done", 0)
    /\ UNCHANGED <<prog, today, start_date, end_date, schema, has_more, start_cursor,
                   queries, pages, records, tag_list, df, daily_data, boxes,
                   week_label_map, current_month, text_freq, i, value, color>>

\* word cloud lines 69-117, one iteration of the while loop whose query succeeds
WQuery ==
    /\ prog = "wordcloud" /\ pc = "loop" /\ has_more
    /\ \E response \in Responses(WordcloudPages) :
        /\ queries' = Append(queries, start_cursor)
        /\ pages' = Append(pages, response)
        /\ tag_list' = ExtendTags(tag_list, response.results)
        /\ has_more' = HasMore(response)
        /\ start_cursor' = NextCursor(response)
    /\ UNCHANGED <<prog, pc, exit_code, today, start_date, end_date, schema, records,
                   df, daily_data, boxes, week_label_map, current_month, text_freq,
                   files, i, value, color>>

\* word cloud lines 70-78: the query raises; print and sys.exit(1)
WQueryError ==
    /\ prog = "wordcloud" /\ pc = "loop" /\ has_more
    /\ queries' = Append(queries, start_cursor)
    /\ Exit("query_failed", 1)
    /\ UNCHANGED <<prog, today, start_date, end_date, schema, has_more, start_cursor,
                   pages, records, tag_list, df, daily_data, boxes, week_label_map,
                   current_month, text_freq, files, i, value, color>>

\* word cloud lines 119-125: sys.exit(0) when there are no tags, else count them.
\* Nothing after the loop reads a response: the log of the loop ends here.
WLoopExit ==
    /\ prog = "wordcloud" /\ pc = "loop" /\ ~has_more
    /\ IF tag_list = <<>>
       THEN Exit("no_records", 0) /\ UNCHANGED <<text_freq, queries, pages>>
       ELSE /\ pc' = "font" /\ text_freq' = Counter(tag_list)
            /\ queries' = <<>> /\ pages' = <<>> /\ UNCHANGED exit_code
    /\ UNCHANGED <<prog, today, start_date, end_date, schema, has_more, start_cursor,
                   records, tag_list, df, daily_data, boxes,
                   week_label_map, current_month, files, i, value, color>>

\* word cloud lines 129-140: the bundled font, else a system font; Path(None)
\* raises when the bundled font is missing and no system font is found
WFont ==
    /\ prog = "wordcloud" /\ pc = "font"
    /\ \E found \in BOOLEAN :
        IF found THEN pc' = "generate" /\ UNCHANGED exit_code
        ELSE Exit("crashed", 1)
    /\ UNCHANGED <<prog, today, start_date, end_date, schema, has_more, start_cursor,
                   queries, pages, records, tag_list, df, daily_data, boxes,
                   week_label_map, current_month, text_freq, files, i, value, color>>

\* word cloud lines 160-182: create public/, generate, save public/word_cloud.png
WGenerate ==
    /\ prog = "wordcloud" /\ pc = "generate"
    /\ files' = [Mkdir(files) EXCEPT !.png = "new"]
    /\ pc' = "html"
    /\ UNCHANGED <<prog, exit_code, today, start_date, end_date, schema, has_more,
                   start_cursor, queries, pages, records, tag_list, df, daily_data,
                   boxes, week_label_map, current_month, text_freq, i, value, color>>

\* word cloud lines 185-221: write public/word_cloud.html; main returns
WWriteHtml ==
    /\ prog = "wordcloud" /\ pc = "html"
    /\ files' = [files EXCEPT !.html = "new"]
    /\ Exit("done", 0)
    /\ UNCHANGED <<prog, today, start_date, end_date, schema, has_more, start_cursor,
                   queries, pages, records, tag_list, df, daily_data, boxes,
                   week_label_map, current_month, text_freq, i, value, color>>

Next ==
    \/ HQuery \/ HQueryError \/ HLoopExit \/ HNormalize \/ HAggregate
    \/ HRender \/ HSave \/ HWriteHtml
    \/ WQuery \/ WQueryError \/ WLoopExit \/ WFont \/ WGenerate \/ WWriteHtml

Spec == Init /\ [][Next]_vars

(***************************************************************************)
(* SpecGrid: aggregation, grid layout and month labels on bounded windows  *)
(***************************************************************************)
\* the first start_date considered: 2024-11-25 (a Monday)
GridFirstStart == 739215
\* how many consecutive values of start_date are considered
NumStarts == 7
\* the longest window considered has MaxSpan + 1 days
MaxSpan == 9
\* the most rows of the normalised frame
MaxRows == 2

\* the rows a normalised frame can hold for the window [start, end]
GridRows(start, end) ==
    {[date |-> d, value |-> v] : d \in {start, end, end + 1, NaT}, v \in {50, 90}}

InitGrid ==
    /\ prog = "grid"
    /\ pc = "aggregate"
    /\ exit_code = <<>>
    /\ today = GridFirstStart
    /\ start_date \in GridFirstStart .. (GridFirstStart + NumStarts - 1)
    /\ end_date \in start_date .. (start_date + MaxSpan)
    /\ schema = "absent"
    /\ has_more = FALSE
    /\ start_cursor = NoCursor
    /\ queries = <<>>
    /\ pages = <<>>
    /\ records = <<>>
    /\ tag_list = <<>>
    /\ df \in SeqsUpTo(GridRows(start_date, end_date), MaxRows)
    /\ daily_data = <<>>
    /\ boxes = <<>>
    /\ week_label_map = <<>>
    /\ current_month = -1
    /\ text_freq = <<>>
    /\ files = NoFiles
    /\ i = 0
    /\ value = 0
    /\ color = get_color(0)

\* lines 172-192: the daily series of the frame over the window
GAggregate ==
    /\ prog = "grid" /\ pc = "aggregate"
    /\ daily_data' = Aggregate(df, start_date, end_date)
    /\ pc' = "boxes"
    /\ i' = 1
    /\ UNCHANGED <<prog, exit_code, today, start_date, end_date, schema, has_more,
                   start_cursor, queries, pages, records, tag_list, df, boxes,
                   week_label_map, current_month, text_freq, files, value, color>>

\* lines 247-274: one iteration of the box loop
GBox ==
    /\ prog = "grid" /\ pc = "boxes" /\ i <= Len(daily_data)
    /\ boxes' = Append(boxes, PlotBox(daily_data[i], start_date))
    /\ i' = i + 1
    /\ UNCHANGED <<prog, pc, exit_code, today, start_date, end_date, schema,
                   has_more, start_cursor, queries, pages, records, tag_list, df,
                   daily_data, week_label_map, current_month, text_freq, files,
                   value, color>>

\* lines 276-289: the box loop has ended; the label loop starts
GBoxesDone ==
    /\ prog = "grid" /\ pc = "boxes" /\ i > Len(daily_data)
    /\ week_label_map' = <<>>
    /\ current_month' = -1
    /\ pc' = "labels"
    /\ i' = 1
    /\ UNCHANGED <<prog, exit_code, today, start_date, end_date, schema, has_more,
                   start_cursor, queries, pages, records, tag_list, df, daily_data,
                   boxes, text_freq, files, value, color>>

\* lines 290-299: one iteration of the label loop
GLabel ==
    /\ prog = "grid" /\ pc = "labels" /\ i <= Len(daily_data)
    /\ LET st == PlaceLabel([map |-> week_label_map, month |-> current_month],
                            daily_data[i].date, start_date)
       IN  /\ week_label_map' = st.map
           /\ current_month' = st.month
    /\ i' = i + 1
    /\ UNCHANGED <<prog, pc, exit_code, today, start_date, end_date, schema,
                   has_more, start_cursor, queries, pages, records, tag_list, df,
                   daily_data, boxes, text_freq, files, value, color>>

\* lines 301-305: the label loop has ended
GLabelsDone ==
    /\ prog = "grid" /\ pc = "labels" /\ i > Len(daily_data)
    /\ pc' = "labelled"
    /\ UNCHANGED <<prog, exit_code, today, start_date, end_date, schema, has_more,
                   start_cursor, queries, pages, records, tag_list, df, daily_data,
                   boxes, week_label_map, current_month, text_freq, files, i,
                   value, color>>

NextGrid == GAggregate \/ GBox \/ GBoxesDone \/ GLabel \/ GLabelsDone

SpecGrid == InitGrid /\ [][NextGrid]_vars

(***************************************************************************)
(* SpecColor: the colour classifier on bounded values                      *)
(***************************************************************************)
\* the largest value classified
MaxValue == 500

InitColor ==
    /\ prog = "color"
    /\ pc = "classify"
    /\ exit_code = <<>>
    /\ today = GridFirstStart
    /\ start_date = GridFirstStart
    /\ end_date = GridFirstStart
    /\ schema = "absent"
    /\ has_more = FALSE
    /\ start_cursor = NoCursor
    /\ queries = <<>>
    /\ pages = <<>>
    /\ records = <<>>
    /\ tag_list = <<>>
    /\ df = <<>>
    /\ daily_data = <<>>
    /\ boxes = <<>>
    /\ week_label_map = <<>>
    /\ current_month = -1
    /\ text_freq = <<>>
    /\ files = NoFiles
    /\ i = 0
    /\ value = 0
    /\ color = get_color(0)

\* line 263: color = get_color(value)
Classify ==
    /\ prog = "color" /\ pc = "classify"
    /\ \E v \in 0 .. MaxValue :
        /\ value' = v
        /\ color' = get_color(v)
    /\ UNCHANGED <<prog, pc, exit_code, today, start_date, end_date, schema,
                   has_more, start_cursor, queries, pages, records, tag_list, df,
                   daily_data, boxes, week_label_map, current_month, text_freq,
                   files, i>>

NextColor == Classify

SpecColor == InitColor /\ [][NextColor]_vars

(***************************************************************************)
(* Claims                                                                  *)
(***************************************************************************)
\* the sum of f over the finite set S of rows' positions
RECURSIVE TotalOver(_, _)
TotalOver(frame, S) ==
    IF S = {} THEN 0
    ELSE LET k == CHOOSE k \in S : TRUE
         IN  frame[k].value + TotalOver(frame, S \ {k})

\* the positions of daily_data that hold day d
EntriesOf(d) == {k \in DOMAIN daily_data : daily_data[k].date = d}

\* SpecGrid: the daily series has been computed
Aggregated == prog = "grid" /\ pc # "aggregate"

\* C1: for every day d of the window [start_date, end_date] the daily series holds,
\* for d, the sum of the values of the rows of the normalised frame whose day is d,
\* which is 0 when no row falls on d; a frame of one row with value X on day D and
\* the window [D, D] give the one-day series whose value is X.
C1_DailySums ==
    Aggregated =>
        /\ \A d \in start_date .. end_date :
            /\ EntriesOf(d) # {}
            /\ \A k \in EntriesOf(d) :
                daily_data[k].value =
                    TotalOver(df, {j \in DOMAIN df : df[j].date = d})
        /\ (start_date = end_date /\ Len(df) = 1 /\ df[1].date = start_date)
            => daily_data = <<[date |-> start_date, value |-> df[1].value]>>

\* C1 witness: two rows of 50 and 90 on one day of a window of several days are
\* summed to 140, and another day of the window has no row and holds 0
C1_Witness ==
    /\ Aggregated
    /\ Len(df) = 2 /\ df[1].date = df[2].date /\ df[1].value # df[2].value
    /\ \E k, j \in DOMAIN daily_data :
        /\ daily_data[k].date = df[1].date /\ daily_data[k].value = 140
        /\ daily_data[j].value = 0

\* C2: whatever the window (start_date <= end_date) and the rows of the frame, rows
\* dated outside the window included, the daily series has (end_date - start_date)
\* + 1 entries, holds every day of the window exactly once, and is in ascending
\* order of day.
C2_WindowCovered ==
    Aggregated =>
        /\ Len(daily_data) = (end_date - start_date) + 1
        /\ \A d \in start_date .. end_date : Cardinality(EntriesOf(d)) = 1
        /\ \A k \in 1 .. (Len(daily_data) - 1) :
            daily_data[k].date < daily_data[k + 1].date

\* C2 witness: a frame with a row dated after end_date and a row without a day,
\* over a window of several days
C2_Witness ==
    /\ Aggregated
    /\ end_date > start_date + 1
    /\ \E k, j \in DOMAIN df : df[k].date = end_date + 1 /\ df[j].date = NaT
    /\ Len(daily_data) = (end_date - start_date) + 1

\* Spec: a script is in its fetch loop or has exited from it, so that queries and
\* pages hold every call and response of the run
InLoop == prog \in {"heatmap", "wordcloud"} /\ pc \in {"loop", "query_failed", "no_records"}

Last(seq) == seq[Len(seq)]

\* no file of public/ has been created or written by this run
NothingWritten == files \in {NoFiles, OldFiles}

\* nothing has been computed from the records or tags collected
NothingAggregated ==
    /\ df = <<>> /\ daily_data = <<>> /\ boxes = <<>>
    /\ week_label_map = <<>> /\ text_freq = <<>>

\* C3: in both fetch loops the first query carries no cursor, every later query
\* carries the next_cursor of the page before it and is made only after a page with
\* has_more = true, the loop goes on exactly while the last page had has_more = true
\* and is left only after a page with has_more = false, and the records (tags) kept
\* are those of all pages fetched, in page order.
C3_Pagination ==
    /\ [](InLoop =>
            /\ Len(queries) \in {Len(pages), Len(pages) + 1}
            /\ queries # <<>> => queries[1] = NoCursor
            /\ \A k \in 2 .. Len(queries) :
                pages[k - 1].has_more /\ queries[k] = pages[k - 1].next_cursor
            /\ (pc = "loop" /\ pages # <<>>) => has_more = Last(pages).has_more
            /\ prog = "heatmap" => records = IngestPage(<<>>, Fetched(pages))
            /\ prog = "wordcloud" => tag_list = ExtendTags(<<>>, Fetched(pages)))
    /\ [][(pc = "loop" /\ has_more) => Len(queries') = Len(queries) + 1]_vars
    /\ [][(pc = "loop" /\ ~has_more) =>
            /\ pc' # "loop"
            /\ Len(queries) = Len(pages) /\ ~Last(pages).has_more]_vars

\* C3 witness: three pages with has_more = true, true, false and cursors c1, c2 were
\* fetched by the queries with cursors none, c1, c2, and records of the first and
\* of the last page were kept in that order
C3_Witness ==
    /\ prog = "heatmap" /\ pc = "loop" /\ ~has_more
    /\ queries = <<NoCursor, "c1", "c2">>
    /\ Len(pages) = 3
    /\ pages[1].next_cursor = "c1" /\ pages[2].next_cursor = "c2"
    /\ Len(pages[1].results) = 1 /\ Len(pages[3].results) = 1
    /\ Len(records) = 2 /\ records[1] # records[2]
    /\ records[1].date = ExtractDate(pages[1].results[1].date_prop)
    /\ records[2].date = ExtractDate(pages[3].results[1].date_prop)

\* C4: when a query fails, at whichever page, the run ends at once with exit status
\* 1: no further query is made, the records collected from the earlier pages are
\* never aggregated or rendered, and no artifact is written.
C4_QueryFailureFatal ==
    (prog \in {"heatmap", "wordcloud"} /\ Len(queries) > Len(pages)) =>
        /\ pc = "query_failed"
        /\ exit_code = <<1>>
        /\ Len(queries) = Len(pages) + 1
        /\ NothingAggregated
        /\ NothingWritten
        /\ ~ENABLED Next

\* C4 witness: the third query failed after two pages that left records
C4_Witness ==
    /\ prog = "heatmap" /\ pc = "query_failed"
    /\ Len(pages) = 2 /\ Len(queries) = 3
    /\ Len(records) = 2

\* a page record has a date and a number
Kept(page) ==
    /\ ExtractDate(page.date_prop) # NoDate
    /\ page.duration_prop.rollup # "absent"
    /\ page.duration_prop.number \in Nat

C6_EmptyResult ==
    /\ pc = "no_records" =>
        /\ exit_code = <<0>>
        /\ records = <<>> /\ tag_list = <<>>
        /\ pages # <<>> /\ ~Last(pages).has_more
        /\ NothingAggregated
        /\ NothingWritten
        /\ ~ENABLED Next
    /\ (prog \in {"heatmap", "wordcloud"} /\ ~InLoop) =>
        /\ prog = "heatmap" => records # <<>>
        /\ prog = "wordcloud" => tag_list # <<>>

\* C6 witness: two pages were fetched, their records were all skipped, and the
\* artifacts of an earlier run are still in place
C6_Witness ==
    /\ prog = "heatmap" /\ pc = "no_records"
    /\ Len(pages) = 2 /\ Len(Fetched(pages)) = 2
    /\ files = OldFiles

\* the thresholds t1, t2, t3 of the reference palette
Thresholds == <<120, 240, 480>>

\* the tier of a colour: its position in COLORS, from 0
Tier(c) == (CHOOSE k \in DOMAIN COLORS : COLORS[k] = c) - 1

\* C7: for the thresholds 120, 240, 480 and every value v >= 0 the classifier gives
\* tier 0 if v = 0, else the smallest k in {1,2,3} with v < t_k, else tier 4 (v >=
\* t3); it is total, non-decreasing in v, and at each threshold t_k the value t_k - 1
\* has tier k and the value t_k has tier k + 1.
C7_ColorTiers ==
    /\ [](prog = "color" =>
            /\ color \in {COLORS[k] : k \in DOMAIN COLORS}
            /\ value = 0 => Tier(color) = 0
            /\ (value > 0 /\ \E k \in 1..3 : value < Thresholds[k]) =>
                /\ value < Thresholds[Tier(color)]
                /\ \A k \in 1 .. (Tier(color) - 1) : value >= Thresholds[k]
            /\ value >= Thresholds[3] => Tier(color) = 4
            /\ \A k \in 1..3 :
                /\ value = Thresholds[k] - 1 => Tier(color) = k
                /\ value = Thresholds[k] => Tier(color) = k + 1)
    /\ [][(prog = "color" /\ value' >= value) => Tier(color') >= Tier(color)]_vars

\* C7 witness: the value 480 = t3 has been given the top tier
C7_Witness == prog = "color" /\ value = 480 /\ color = COLORS[5]

\* the Mondays after start_date up to day d
MondaysUpTo(d) == {e \in (start_date + 1) .. d : weekday(e) = 0}

\* C8: for every day d of the window, whatever the weekday of start_date, the box of
\* d has week_idx = ((d - start_date).days + start_date.weekday()) // 7 (one more
\* for every Monday passed) and day_idx = d.weekday() in 0..6 with Monday = 0;
\* week_idx is >= 0, does not decrease from one day to the next, is 0 at start_date
\* and is at most total_weeks - 1, where total_weeks = week_idx(end_date) + 1.
C8_GridCoordinates ==
    prog = "grid" =>
        \A k \in DOMAIN boxes :
            LET d == boxes[k].date
            IN  /\ d = start_date + k - 1
                /\ boxes[k].week_idx = ((d - start_date) + weekday(start_date)) \div 7
                /\ boxes[k].week_idx = Cardinality(MondaysUpTo(d))
                /\ boxes[k].day_idx = weekday(d)
                /\ boxes[k].day_idx \in 0..6
                /\ boxes[k].week_idx >= 0
                /\ k > 1 => boxes[k - 1].week_idx <= boxes[k].week_idx
                /\ d = start_date => boxes[k].week_idx = 0
                /\ boxes[k].week_idx <= total_weeks(start_date, end_date) - 1
                /\ d = end_date => boxes[k].week_idx = total_weeks(start_date, end_date) - 1

\* C8 witness: a window starting on a Thursday whose boxes reach the second week
C8_Witness ==
    /\ prog = "grid" /\ pc = "labels"
    /\ weekday(start_date) = 3
    /\ Len(boxes) = 10
    /\ boxes[1].week_idx = 0 /\ boxes[4].week_idx = 0 /\ boxes[5].week_idx = 1
    /\ boxes[5].day_idx = 0 /\ boxes[10].week_idx = 1

\* the positions among the first n items of daily_data at which the month changes:
\* the first item, and every item whose month differs from the item before
LabelPositions(n) ==
    {k \in 1..n : k = 1 \/ month(daily_data[k].date) # month(daily_data[k - 1].date)}

\* C9: while and after the label loop walks the daily series in day order, the
\* label table holds one label per week index, written only for the days at which
\* the month changes (the first day included), and where two such days fall in the
\* same week the label of the later month is the one kept.
C9_MonthLabels ==
    (prog = "grid" /\ pc \in {"labels", "labelled"}) =>
        LET at == LabelPositions(i - 1)
            week(k) == get_week_num(daily_data[k].date, start_date)
        IN  /\ DOMAIN week_label_map = {week(k) : k \in at}
            /\ \A w \in DOMAIN week_label_map :
                LET last == CHOOSE k \in at :
                                /\ week(k) = w
                                /\ \A j \in at : week(j) = w => j <= k
                IN  week_label_map[w] = MonthStr[month(daily_data[last].date)]
            /\ i > 1 => current_month = month(daily_data[i - 1].date)

\* C9 witness: the window starts in November in the week that holds 1 December;
\* both months were first seen in week 0, whose label is December's
C9_Witness ==
    /\ prog = "grid" /\ pc = "labelled"
    /\ month(start_date) = 11 /\ month(end_date) = 12
    /\ \E k \in DOMAIN daily_data :
        /\ month(daily_data[k].date) = 12
        /\ get_week_num(daily_data[k].date, start_date) = 0
    /\ week_label_map = (0 :> "12")

\* Spec: the frame has been normalised
Normalized ==
    prog = "heatmap" /\ pc \in {"aggregate", "render", "save", "html", "done"}

\* C10 (as claimed): the normaliser gives every zone-aware timestamp the calendar
\* day it falls on in UTC+8 and every naive timestamp its own calendar day.
C10_PerTimestampDay ==
    Normalized =>
        \A k \in DOMAIN records :
            df[k].date = IF records[k].date.kind = "datetime"
                         THEN TaipeiDay(records[k].date)
                         ELSE records[k].date.day

\* representation (1): the start of a date-typed value
DateTyped(date_prop) == IF date_prop.type = "date" THEN date_prop.date ELSE NoDate

\* representation (2): a created_time value
CreatedTime(date_prop) ==
    IF date_prop.type = "created_time" THEN date_prop.created_time ELSE NoDate

\* representation (3): the date mentions of the title / rich_text content list,
\* in reading order
Mentioned(date_prop) ==
    LET content_list == IF date_prop.title # <<>> THEN date_prop.title
                        ELSE date_prop.rich_text
        IsDate(item) == item.mention = "date" /\ item.start # NoDate
        found == SelectSeq(content_list, IsDate)
    IN  IF found = <<>> THEN NoDate ELSE found[1].start

\* the value of the first of the three representations that is non-empty
FirstNonEmpty(date_prop) ==
    IF DateTyped(date_prop) # NoDate THEN DateTyped(date_prop)
    ELSE IF CreatedTime(date_prop) # NoDate THEN CreatedTime(date_prop)
    ELSE Mentioned(date_prop)

\* a page record has a date in one of the three representations, and a number
Dated(page) ==
    /\ FirstNonEmpty(page.date_prop) # NoDate
    /\ page.duration_prop.rollup # "absent"
    /\ page.duration_prop.number \in Nat

\* C11 (as claimed): the date of a record is the value of the first non-empty
\* representation among the date-typed start, the created_time and the date
\* mention of the title / rich_text content list, in that order; a record with
\* none is skipped without an error; so the records ingested are those of the
\* fetched pages that have such a date (and a number), each with that date.
C11_FirstRepresentation ==
    (InLoop /\ prog = "heatmap") =>
        LET dated == SelectSeq(Fetched(pages), Dated)
        IN  /\ records = [k \in DOMAIN dated |->
                            [date |-> FirstNonEmpty(dated[k].date_prop),
                             value |-> dated[k].duration_prop.number]]
            /\ pc # "crashed"

\* the tag property of a page record is of one of the four types that carry tags
Matched(page) ==
    page.tag_prop.type \in {"multi_select", "select", "rich_text", "formula"}

\* the tags of a sequence of page records, record after record
RECURSIVE Flattened(_)
Flattened(results) ==
    IF results = <<>> THEN <<>>
    ELSE ExtractTags(Head(results).tag_prop) \o Flattened(Tail(results))

\* the times tag t occurs in the sequence tags
Occurrences(t, tags) == Len(SelectSeq(tags, LAMBDA x : x = t))

\* the sum of the counts of the tags S in the table freq
RECURSIVE SumOfCounts(_, _)
SumOfCounts(freq, S) ==
    IF S = {} THEN 0
    ELSE LET t == CHOOSE t \in S : TRUE
         IN  freq[t] + SumOfCounts(freq, S \ {t})

\* the word cloud's tags have been counted
Counted == prog = "wordcloud" /\ pc \in {"font", "generate", "html", "done", "crashed"}

\* C12: the tag list is the flattened list of the tags of all records of all
\* fetched pages, a record whose tag property is absent or of an unmatched type
\* adding no tag and causing no failure; the frequency table maps each tag of that
\* list to the number of times it occurs in it, so the counts sum to the number of
\* tag occurrences of the fetched records (not to the number of records).
C12_TagFrequencies ==
    /\ []((InLoop /\ prog = "wordcloud") =>
            /\ tag_list = Flattened(SelectSeq(Fetched(pages), Matched))
            /\ pc # "crashed")
    /\ [](Counted =>
            /\ DOMAIN text_freq = {tag_list[k] : k \in DOMAIN tag_list}
            /\ \A t \in DOMAIN text_freq :
                text_freq[t] = Occurrences(t, tag_list) /\ text_freq[t] >= 1
            /\ SumOfCounts(text_freq, DOMAIN text_freq) = Len(tag_list))
    /\ [][(prog = "wordcloud" /\ pc = "loop" /\ pc' = "font") =>
            /\ tag_list' = tag_list
            /\ SumOfCounts(text_freq', DOMAIN text_freq')
                 = Len(Flattened(SelectSeq(Fetched(pages), Matched)))]_vars

\* C12 witness: the three tags A, B, A, which at most two records gave, counted as
\* A twice and B once
C12_Witness ==
    /\ prog = "wordcloud" /\ pc = "font"
    /\ tag_list = <<TagA, TagB, TagA>>
    /\ text_freq = (TagA :> 2) @@ (TagB :> 1)

====
